---- MODULE Spec2Model ----
(***************************************************************************)
(* A model of django-is-core's core registry (is_core/loading.py) and of   *)
(* its smart forms (is_core/forms/forms.py).                               *)
(*                                                                         *)
(* The registry and the forms share no state, so each is checked under a   *)
(* specification of its own: LoaderSpec for the registry, ClassSpec and    *)
(* ViewSpec for the creation of form classes, CleanSpec and LookupSpec for *)
(* the forms made of them.                                                 *)
(*                                                                         *)
(* The code is Python 2 / Django <= 1.6 code (SortedDict, piston,          *)
(* django.utils.importlib): SortedDict.items() and .values() return lists, *)
(* so a loop over them walks a snapshot taken before the loop body runs.   *)
(***************************************************************************)
EXTENDS Naturals, Sequences, FiniteSets

VARIABLES
    apps,       \* CoresLoader.apps: SortedDict app_label -> App, in insertion order
    modules,    \* the importable modules: what each one registers when first imported
    imported,   \* the modules already imported (sys.modules)
    calls,      \* history: how often register_core(app_label, core) was called
    yielded,    \* the cores the latest iteration of get_cores() yielded, in order
    classes,    \* the form classes created so far, by id
    forms,      \* the form instances created so far, by id
    outcome     \* what the latest factory call or form[name] lookup returned or raised

loaderVars == <<apps, modules, imported, calls, yielded>>
formVars == <<classes, forms, outcome>>
vars == <<apps, modules, imported, calls, yielded, classes, forms, outcome>>

----------------------------------------------------------------------------
(* Generic helpers *)

RECURSIVE SeqToSet(_)
SeqToSet(s) == IF s = <<>> THEN {} ELSE {Head(s)} \cup SeqToSet(Tail(s))

RECURSIVE Count(_, _)
Count(s, x) ==
    IF s = <<>> THEN 0
    ELSE (IF Head(s) = x THEN 1 ELSE 0) + Count(Tail(s), x)

\* All orders in which the elements of a finite set can be iterated.
RECURSIVE Orders(_)
Orders(S) ==
    IF S = {} THEN {<<>>}
    ELSE UNION {{<<x>> \o o : o \in Orders(S \ {x})} : x \in S}

----------------------------------------------------------------------------
(* is_core/loading.py *)

MaxCalls == 3

Labels == {"app1", "app2"}
Cores == {"c1", "c2"}

\* settings.INSTALLED_APPS
INSTALLED_APPS == <<"app1", "app2">>

\* What '<app>.cores' can be: missing (import_module raises ImportError), or a
\* module whose body registers the listed cores under the app's label.
ModuleBodies == {
    [exists |-> FALSE, registers |-> <<>>],
    [exists |-> TRUE, registers |-> <<"c1">>],
    [exists |-> TRUE, registers |-> <<"c2", "c2">>] }

\* App.__init__
App == {}

AppLabels(a) == {a[i].label : i \in DOMAIN a}

AppIndex(a, app_label) == CHOOSE i \in DOMAIN a : a[i].label = app_label

\* A lost-update variant: a fresh App replaces the one already registered.
register_core_fresh(a, app_label, core) ==
    IF app_label \in AppLabels(a)
    THEN [a EXCEPT ![AppIndex(a, app_label)].cores = App \cup {core}]
    ELSE Append(a, [label |-> app_label, cores |-> App \cup {core}])

\* CoresLoader.register_core: apps.get(app_label, App()), cores.add(core),
\* apps[app_label] = app (a SortedDict keeps the position of a known key).
register_core(a, app_label, core) ==
    IF app_label \in AppLabels(a)
    THEN [a EXCEPT ![AppIndex(a, app_label)].cores = @ \cup {core}]
    ELSE Append(a, [label |-> app_label, cores |-> App \cup {core}])

RECURSIVE register_all(_, _, _)
register_all(a, app_label, cs) ==
    IF cs = <<>> THEN a
    ELSE register_all(register_core(a, app_label, Head(cs)), app_label, Tail(cs))

\* One import_module('%s.cores' % app): the module body runs on the first
\* successful import only; ImportError is swallowed.
RECURSIVE import_from(_, _, _, _)
import_from(i, a, imp, mods) ==
    IF i > Len(INSTALLED_APPS) THEN [apps |-> a, imported |-> imp]
    ELSE LET app == INSTALLED_APPS[i] IN
         IF mods[app].exists /\ app \notin imp
         THEN import_from(i + 1, register_all(a, app, mods[app].registers),
                          imp \cup {app}, mods)
         ELSE import_from(i + 1, a, imp, mods)

\* CoresLoader._init_apps. import_module('is_core.main') comes first; that
\* module is not one of the '<app>.cores' modules and registers nothing here.
_init_apps(a, imp, mods) == import_from(1, a, imp, mods)

\* The register_core calls the module bodies make during _init_apps.
ImportCalls(imp, mods, app_label, core) ==
    IF app_label \in SeqToSet(INSTALLED_APPS) /\ mods[app_label].exists
       /\ app_label \notin imp
    THEN Count(mods[app_label].registers, core)
    ELSE 0

\* The sequences the two nested loops of get_cores can yield: the apps in
\* SortedDict order, each app's set of cores in any order.
RECURSIVE Iterations(_)
Iterations(a) ==
    IF a = <<>> THEN {<<>>}
    ELSE {h \o t : h \in Orders(Head(a).cores), t \in Iterations(Tail(a))}

TotalCalls == calls["app1"]["c1"] + calls["app1"]["c2"]
              + calls["app2"]["c1"] + calls["app2"]["c2"]

RegisterCore(app_label, core) ==
    /\ TotalCalls < MaxCalls
    /\ apps' = register_core(apps, app_label, core)
    /\ calls' = [calls EXCEPT ![app_label][core] = @ + 1]
    /\ UNCHANGED <<modules, imported, yielded>>
    /\ UNCHANGED formVars

\* Iterating get_cores() to the end.
GetCores ==
    LET after == _init_apps(apps, imported, modules) IN
    /\ apps' = after.apps
    /\ imported' = after.imported
    /\ calls' = [l \in Labels |-> [c \in Cores |->
                    calls[l][c] + ImportCalls(imported, modules, l, c)]]
    /\ \E it \in Iterations(after.apps) : yielded' = [done |-> TRUE, cores |-> it]
    /\ UNCHANGED modules
    /\ UNCHANGED formVars

LoaderInit ==
    /\ apps = <<>>
    /\ modules \in [SeqToSet(INSTALLED_APPS) -> ModuleBodies]
    /\ imported = {}
    /\ calls = [l \in Labels |-> [c \in Cores |-> 0]]
    /\ yielded = [done |-> FALSE, cores |-> <<>>]

LoaderNext ==
    \/ \E l \in Labels, c \in Cores : RegisterCore(l, c)
    \/ GetCores

\* The registry as constructed, with no '<app>.cores' module to import.
LoaderIdle ==
    /\ apps = <<>>
    /\ modules = [app \in SeqToSet(INSTALLED_APPS) |->
                     [exists |-> FALSE, registers |-> <<>>]]
    /\ imported = {}
    /\ calls = [l \in Labels |-> [c \in Cores |-> 0]]
    /\ yielded = [done |-> FALSE, cores |-> <<>>]

----------------------------------------------------------------------------
(* is_core/forms/forms.py: form fields and the SortedDict of base_fields *)

MaxGenerated == 1
MaxViews == 2

Names == {"a", "b", "m"}
\* The request objects of the views, in the order the requests arrive: every
\* call of smartform_factory is made for a request of its own.
Requests == <<"req1", "req2", "req3", "req4">>

\* Widget class names, letter by letter.
TextInput == <<"T", "e", "x", "t", "I", "n", "p", "u", "t">>
URLInput == <<"U", "R", "L", "I", "n", "p", "u", "t">>
ClearableFileInput == <<"C", "l", "e", "a", "r", "a", "b", "l", "e",
                        "F", "i", "l", "e", "I", "n", "p", "u", "t">>
ReadonlyWidget == <<"R", "e", "a", "d", "o", "n", "l", "y",
                    "W", "i", "d", "g", "e", "t">>

\* The field objects forms are built from.
CharField == [cls |-> "CharField", required |-> TRUE, is_readonly |-> FALSE,
              widget |-> TextInput]
URLField == [cls |-> "URLField", required |-> FALSE, is_readonly |-> FALSE,
             widget |-> URLInput]
FileField == [cls |-> "FileField", required |-> TRUE, is_readonly |-> FALSE,
              widget |-> ClearableFileInput]
ReadonlyField == [cls |-> "ReadonlyField", required |-> FALSE, is_readonly |-> TRUE,
                  widget |-> ReadonlyWidget]
SmartReadonlyField == [cls |-> "SmartReadonlyField", required |-> FALSE,
                       is_readonly |-> TRUE, widget |-> ReadonlyWidget]

\* SortedDict as a sequence of items in key order.
Item(name, field) == [name |-> name, field |-> field]

Keys(d) == {d[i].name : i \in DOMAIN d}

Get(d, name) == d[CHOOSE i \in DOMAIN d : d[i].name = name].field

\* SortedDict.__delitem__
Del(d, name) == SelectSeq(d, LAMBDA it : it.name # name)

\* SortedDict.__setitem__: a new key goes last, a known key keeps its place.
Set(d, name, field) ==
    IF name \in Keys(d)
    THEN [i \in DOMAIN d |-> IF d[i].name = name THEN Item(name, field) ELSE d[i]]
    ELSE Append(d, Item(name, field))

RECURSIVE SortedDict(_, _)
SortedDict(d, items) ==
    IF items = <<>> THEN d
    ELSE SortedDict(Set(d, Head(items).name, Head(items).field), Tail(items))

\* An attribute that may be unset (getattr(..., None)).
Unset(v) == [some |-> FALSE, v |-> v]
Given(v) == [some |-> TRUE, v |-> v]

\* A Meta with no attribute set.
EmptyMeta == [exclude |-> Unset({}), readonly_fields |-> Unset(<<>>),
              readonly |-> Unset(FALSE)]

\* formreadonlyfield_callback values: None, or a function from a name to a field.
Callbacks == {"None", "smart", "plain"}

Call(callback, field_name) ==
    IF callback = "smart" THEN SmartReadonlyField ELSE URLField

----------------------------------------------------------------------------
(* SmartFormMetaclass and smartform_factory *)

\* The class SmartForm itself: no fields, no Meta, no base_readonly_fields.
SmartForm == [base |-> 0, hasMeta |-> FALSE, Meta |-> EmptyMeta,
              base_fields |-> <<>>, has_readonly |-> FALSE,
              base_readonly_fields |-> <<>>, request |-> Unset(""),
              has_callback |-> FALSE, callback |-> "None"]

\* getattr(new_class, 'Meta', None): the class's own Meta or the inherited one.
Opts(cs, base, attrs) == IF attrs.hasMeta THEN attrs.Meta ELSE cs[base].Meta

\* getattr(opts, 'readonly_fields', None) or ()
OptsReadonlyFields(opts) ==
    IF opts.readonly_fields.some THEN opts.readonly_fields.v ELSE <<>>

\* A variant that never deletes: an excluded field is only skipped.
RECURSIVE items_loop_keep(_, _, _, _, _)
items_loop_keep(items, st, exclude_fields, readonly_fields, readonly) ==
    IF items = <<>> THEN st
    ELSE LET name == Head(items).name
             field == Head(items).field
             next == IF name \in exclude_fields
                     THEN st
                     ELSE IF \/ name \in SeqToSet(readonly_fields)
                             \/ readonly
                             \/ field.is_readonly
                          THEN [st EXCEPT !.base_readonly_fields = Append(@, name)]
                          ELSE st
         IN items_loop_keep(Tail(items), next, exclude_fields, readonly_fields, readonly)

\* The loop over new_class.base_fields.items(): an excluded field is deleted,
\* a readonly one is noted. items() is a list made before the loop runs.
RECURSIVE items_loop(_, _, _, _, _)
items_loop(items, st, exclude_fields, readonly_fields, readonly) ==
    IF items = <<>> THEN st
    ELSE LET name == Head(items).name
             field == Head(items).field
             next == IF name \in exclude_fields
                     THEN [st EXCEPT !.base_fields = Del(@, name)]
                     ELSE IF \/ name \in SeqToSet(readonly_fields)
                             \/ readonly
                             \/ field.is_readonly
                          THEN [st EXCEPT !.base_readonly_fields = Append(@, name)]
                          ELSE st
         IN items_loop(Tail(items), next, exclude_fields, readonly_fields, readonly)

\* A variant that adds the callback's field without listing it as readonly.
RECURSIVE readonly_loop_unlisted(_, _, _)
readonly_loop_unlisted(order, st, attrs) ==
    IF order = <<>> \/ st.raised THEN st
    ELSE LET field_name == Head(order)
             next == IF field_name \notin Keys(st.base_fields) /\ attrs.has_callback
                     THEN IF attrs.callback = "None"
                          THEN [st EXCEPT !.raised = TRUE]
                          ELSE [st EXCEPT
                                  !.base_fields =
                                      Set(@, field_name, Call(attrs.callback, field_name))]
                     ELSE st
         IN readonly_loop_unlisted(Tail(order), next, attrs)

\* The loop over set(readonly_fields), in the order the set is iterated: a
\* name that is no key of base_fields gets the callback's field. Calling a
\* callback of None raises TypeError.
RECURSIVE readonly_loop(_, _, _)
readonly_loop(order, st, attrs) ==
    IF order = <<>> \/ st.raised THEN st
    ELSE LET field_name == Head(order)
             next == IF field_name \notin Keys(st.base_fields) /\ attrs.has_callback
                     THEN IF attrs.callback = "None"
                          THEN [st EXCEPT !.raised = TRUE]
                          ELSE [st EXCEPT
                                  !.base_fields =
                                      Set(@, field_name, Call(attrs.callback, field_name)),
                                  !.base_readonly_fields = Append(@, field_name)]
                     ELSE st
         IN readonly_loop(Tail(order), next, attrs)

\* A variant that extends the list of the base class as well.
assign_base_readonly_fields_shared(cs, new_class, base, base_readonly_fields) ==
    [cs EXCEPT ![new_class].base_readonly_fields = base_readonly_fields,
               ![new_class].has_readonly = TRUE,
               ![base].base_readonly_fields = @ \o base_readonly_fields]

\* new_class.base_readonly_fields = base_readonly_fields
assign_base_readonly_fields(cs, new_class, base, base_readonly_fields) ==
    [cs EXCEPT ![new_class].base_readonly_fields = base_readonly_fields,
               ![new_class].has_readonly = TRUE]

\* SmartFormMetaclass.__new__(cls, name, bases, attrs) with bases = (base,).
\* The class DeclarativeFieldsMetaclass returns has a base_fields SortedDict
\* of its own: the items of the base's base_fields, then the declared fields.
\* A class without Meta keeps every attribute it inherits.
SmartFormMetaclass__new__(cs, base, attrs, order) ==
    LET opts == Opts(cs, base, attrs)
        hasMeta == attrs.hasMeta \/ cs[base].hasMeta
        new_class == [base |-> base,
                      hasMeta |-> hasMeta,
                      Meta |-> opts,
                      base_fields |-> SortedDict(<<>>, cs[base].base_fields \o attrs.fields),
                      has_readonly |-> cs[base].has_readonly,
                      base_readonly_fields |-> cs[base].base_readonly_fields,
                      request |-> IF attrs.request.some THEN attrs.request
                                  ELSE cs[base].request,
                      has_callback |-> attrs.has_callback,
                      callback |-> IF attrs.has_callback THEN attrs.callback ELSE "None"]
        exclude_fields == IF opts.exclude.some THEN opts.exclude.v ELSE {}
        readonly_fields == OptsReadonlyFields(opts)
        readonly == opts.readonly.some /\ opts.readonly.v
        st0 == [base_fields |-> new_class.base_fields,
                base_readonly_fields |-> <<>>, raised |-> FALSE]
        st1 == items_loop(new_class.base_fields, st0, exclude_fields,
                          readonly_fields, readonly)
        st2 == readonly_loop(order, st1, attrs)
        id == Len(cs) + 1
    IN IF ~hasMeta
       THEN [raised |-> FALSE, classes |-> Append(cs, new_class)]
       ELSE IF st2.raised
       THEN [raised |-> TRUE, classes |-> cs]
       ELSE [raised |-> FALSE,
             classes |-> assign_base_readonly_fields(
                             Append(cs, [new_class EXCEPT !.base_fields = st2.base_fields]),
                             id, base, st2.base_readonly_fields)]

\* The Meta smartform_factory builds: type('Meta', (form.Meta, object), attrs)
\* when the form has a Meta, type('Meta', (object,), attrs) when it has none.
\* An attribute not put in attrs is the parent Meta's.
FactoryMeta(cs, form, readonly_fields, exclude, readonly) ==
    LET parent == IF cs[form].hasMeta THEN cs[form].Meta ELSE EmptyMeta
    IN [exclude |-> IF exclude.some THEN exclude ELSE parent.exclude,
        readonly_fields |-> IF readonly_fields.some THEN readonly_fields
                            ELSE parent.readonly_fields,
        readonly |-> Given(readonly)]

FactoryAttrs(cs, request, form, readonly_fields, exclude, callback, readonly) ==
    [fields |-> <<>>,
     hasMeta |-> TRUE,
     Meta |-> FactoryMeta(cs, form, readonly_fields, exclude, readonly),
     has_callback |-> TRUE,
     callback |-> callback,
     request |-> Given(request)]

\* smartform_factory(request, form, readonly_fields, exclude,
\*                   formreadonlyfield_callback, readonly)
smartform_factory(cs, request, form, readonly_fields, exclude, callback, readonly, order) ==
    SmartFormMetaclass__new__(
        cs, form,
        FactoryAttrs(cs, request, form, readonly_fields, exclude, callback, readonly),
        order)

\* The orders in which set(readonly_fields) can be iterated for this call.
FactoryOrders(cs, form, readonly_fields, exclude, readonly) ==
    Orders(SeqToSet(OptsReadonlyFields(
        FactoryMeta(cs, form, readonly_fields, exclude, readonly))))

NoOutcome == [op |-> "", exc |-> "", cls |-> 0, form |-> 0, name |-> "",
              bound |-> "", type |-> <<>>, value |-> ""]

\* The request of the view that runs next.
NextRequest == Requests[Len(classes) - 1]

\* A view calls smartform_factory for its request.
Factory(generated, request, form, readonly_fields, exclude, callback, readonly) ==
    /\ Len(classes) < 2 + generated
    /\ request = NextRequest
    /\ \E order \in FactoryOrders(classes, form, readonly_fields, exclude, readonly) :
          LET r == smartform_factory(classes, request, form, readonly_fields,
                                     exclude, callback, readonly, order)
          IN /\ classes' = r.classes
             /\ outcome' = [NoOutcome EXCEPT
                              !.op = "smartform_factory",
                              !.exc = IF r.raised THEN "TypeError" ELSE "",
                              !.cls = IF r.raised THEN 0 ELSE Len(r.classes)]
    /\ UNCHANGED forms
    /\ UNCHANGED loaderVars

\* The form classes a project declares: class X(SmartForm) with fields, with
\* or without an inner Meta and a formreadonlyfield_callback attribute.
EditableBody == <<Item("a", CharField), Item("b", URLField)>>

UploadBody == <<Item("a", FileField), Item("b", ReadonlyField)>>

DeclaredBodies == {EditableBody, UploadBody}

DeclaredMetas == {
    [hasMeta |-> FALSE, Meta |-> EmptyMeta],
    [hasMeta |-> TRUE, Meta |-> EmptyMeta],
    [hasMeta |-> TRUE,
     Meta |-> [exclude |-> Given({"b"}), readonly_fields |-> Given(<<"a", "m">>),
               readonly |-> Unset(FALSE)]] }

DeclaredAttrs(body, meta, has_callback) ==
    [fields |-> body, hasMeta |-> meta.hasMeta, Meta |-> meta.Meta,
     has_callback |-> has_callback, callback |-> "smart", request |-> Unset("")]

\* The arguments views pass to smartform_factory.
ExcludeArgs == {Unset({}), Given({"a"}), Given({"b", "m"})}
ReadonlyFieldsArgs == {Unset(<<>>), Given(<<"b", "b">>), Given(<<"m", "a">>)}

\* After the modules are loaded: SmartForm and one declared form class.
DeclaredInit(bodies, callbacks) ==
    /\ \E body \in bodies, meta \in DeclaredMetas, has_callback \in callbacks :
          \E order \in Orders(SeqToSet(OptsReadonlyFields(meta.Meta))) :
             classes = SmartFormMetaclass__new__(
                           <<SmartForm>>, 1,
                           DeclaredAttrs(body, meta, has_callback), order).classes
    /\ forms = <<>>
    /\ outcome = NoOutcome

FormInit == DeclaredInit(DeclaredBodies, BOOLEAN)

ClassNext ==
    \E request \in SeqToSet(Requests), form \in DOMAIN classes,
       readonly_fields \in ReadonlyFieldsArgs, exclude \in ExcludeArgs,
       callback \in Callbacks, readonly \in BOOLEAN :
          Factory(MaxGenerated, request, form, readonly_fields, exclude, callback, readonly)

----------------------------------------------------------------------------
(* SmartBoundField, ReadonlyBoundField and SmartFormMixin *)

Upper == <<"C", "F", "I", "L", "R", "T", "U", "W">>
Lower == <<"c", "f", "i", "l", "r", "t", "u", "w">>

IsUpper(ch) == \E i \in DOMAIN Upper : Upper[i] = ch

\* str.lower() on one letter
ToLower(ch) ==
    IF IsUpper(ch) THEN Lower[CHOOSE i \in DOMAIN Upper : Upper[i] = ch] ELSE ch

\* re.sub(r'(\w)([A-Z])', r'\1-\2', class_name): matches are found left to
\* right and do not overlap; every letter of a class name is a \w.
RECURSIVE sub_hyphen(_)
sub_hyphen(s) ==
    IF s = <<>> THEN <<>>
    ELSE IF Len(s) >= 2 /\ IsUpper(s[2])
         THEN <<s[1], "-", s[2]>> \o sub_hyphen(Tail(Tail(s)))
         ELSE <<s[1]>> \o sub_hyphen(Tail(s))

pretty_class_name(class_name) ==
    LET hyphened == sub_hyphen(class_name)
    IN [i \in DOMAIN hyphened |-> ToLower(hyphened[i])]

READONLY == <<"r", "e", "a", "d", "o", "n", "l", "y">>

\* SmartBoundField.type
type(is_readonly, field) ==
    IF is_readonly THEN READONLY ELSE pretty_class_name(field.widget)

\* The values a request can submit for a field: nothing, a value the field
\* accepts, a value its validators reject.
Values == {"", "ok", "bad"}

\* form.initial.get(name, field.initial): no field here sets field.initial.
Initial(form, name) == IF name \in form.initial THEN "initial" ELSE "None"

\* ReadonlyBoundField.value: from form.initial, never from form.data.
ReadonlyBoundField_value(form, name) == Initial(form, name)

\* BoundField.value of a bound form: the submitted data (for a FileField the
\* initial value).
BoundField_value(form, name) ==
    IF Get(form.fields, name).cls = "FileField" THEN Initial(form, name)
    ELSE form.data[name]

\* A lookup that consults the field instead of base_readonly_fields.
getitem_by_field(form, base_readonly_fields, name) ==
    IF name \notin Keys(form.fields)
    THEN [exc |-> "KeyError", bound |-> "", type |-> <<>>, value |-> ""]
    ELSE LET field == Get(form.fields, name) IN
         IF field.is_readonly
         THEN [exc |-> "", bound |-> "ReadonlyBoundField",
               type |-> type(TRUE, field),
               value |-> ReadonlyBoundField_value(form, name)]
         ELSE [exc |-> "", bound |-> "SmartBoundField",
               type |-> type(FALSE, field),
               value |-> BoundField_value(form, name)]

\* SmartFormMixin.__getitem__
__getitem__(form, base_readonly_fields, name) ==
    IF name \notin Keys(form.fields)
    THEN [exc |-> "KeyError", bound |-> "", type |-> <<>>, value |-> ""]
    ELSE LET field == Get(form.fields, name) IN
         IF name \in SeqToSet(base_readonly_fields)
         THEN [exc |-> "", bound |-> "ReadonlyBoundField",
               type |-> type(TRUE, field),
               value |-> ReadonlyBoundField_value(form, name)]
         ELSE [exc |-> "", bound |-> "SmartBoundField",
               type |-> type(FALSE, field),
               value |-> BoundField_value(form, name)]

\* field.clean(value), and for a FileField field.clean(value, initial): the
\* cleaned value, or the message of the ValidationError raised.
clean(field, value, initial) ==
    IF field.cls = "FileField" /\ value = "" /\ initial # "None"
    THEN [ok |-> TRUE, value |-> initial, message |-> ""]
    ELSE IF value = ""
    THEN IF field.required
         THEN [ok |-> FALSE, value |-> "", message |-> "required"]
         ELSE [ok |-> TRUE, value |-> "", message |-> ""]
    ELSE IF value = "bad"
    THEN [ok |-> FALSE, value |-> "", message |-> "invalid"]
    ELSE IF field.cls = "URLField"
    THEN [ok |-> TRUE, value |-> "http://ok/", message |-> ""]
    ELSE [ok |-> TRUE, value |-> value, message |-> ""]

\* A name that is no key of cleaned_data, and a name that has no errors.
Absent == "<absent>"
NoError == ""

\* One round of the loop of _clean_fields for every item of self.fields. The
\* forms here define no clean_<name> method.
RECURSIVE clean_loop(_, _, _)
clean_loop(items, form, base_readonly_fields) ==
    IF items = <<>> THEN form
    ELSE LET name == Head(items).name
             field == Head(items).field
             r == clean(field, form.data[name], Initial(form, name))
             next == IF name \in SeqToSet(base_readonly_fields) THEN form
                     ELSE IF r.ok
                     THEN [form EXCEPT !.cleaned_data[name] = r.value]
                     ELSE [form EXCEPT !.errors[name] = r.message,
                                       !.cleaned_data[name] = Absent]
         IN clean_loop(Tail(items), next, base_readonly_fields)

\* A variant that cleans every field, readonly or not.
_clean_fields_all(form, base_readonly_fields) ==
    clean_loop(form.fields, form, <<>>)

\* SmartFormMixin._clean_fields
_clean_fields(form, base_readonly_fields) ==
    clean_loop(form.fields, form, base_readonly_fields)

\* SmartFormMixin._set_readonly: the list appended to is the class's.
_set_readonly(base_readonly_fields, field_name) ==
    IF field_name \notin SeqToSet(base_readonly_fields)
    THEN Append(base_readonly_fields, field_name)
    ELSE base_readonly_fields

\* BaseForm.full_clean of a bound form: _errors and cleaned_data start empty,
\* then _clean_fields runs (_clean_form and _post_clean change nothing here).
full_clean(form, base_readonly_fields) ==
    _clean_fields([form EXCEPT !.cleaned = TRUE,
                               !.errors = [n \in Names |-> NoError],
                               !.cleaned_data = [n \in Names |-> Absent]],
                  base_readonly_fields)

\* The form of the request being served, if any.
HasForm == forms # <<>>
self == forms[1]
FormClass == classes[self.cls]

\* The view makes the bound form of the request, of a class that has
\* base_readonly_fields (every class made with a Meta, so every class
\* smartform_factory returns): self.fields is a deep copy of base_fields.
NewForm(cls, data, initial) ==
    /\ forms = <<>>
    /\ classes[cls].has_readonly
    /\ forms' = <<[cls |-> cls,
                   fields |-> classes[cls].base_fields,
                   data |-> data,
                   initial |-> initial,
                   cleaned |-> FALSE,
                   errors |-> [n \in Names |-> NoError],
                   cleaned_data |-> [n \in Names |-> Absent]]>>
    /\ UNCHANGED <<classes, outcome>>
    /\ UNCHANGED loaderVars

\* form._set_readonly(field_name)
SetReadonly(field_name) ==
    /\ HasForm
    /\ classes' = [classes EXCEPT ![self.cls].base_readonly_fields =
                                      _set_readonly(@, field_name)]
    /\ UNCHANGED <<forms, outcome>>
    /\ UNCHANGED loaderVars

\* form.full_clean()
FullClean ==
    /\ HasForm
    /\ forms' = <<full_clean(self, FormClass.base_readonly_fields)>>
    /\ UNCHANGED <<classes, outcome>>
    /\ UNCHANGED loaderVars

\* form[name]
GetItem(name) ==
    /\ HasForm
    /\ LET r == __getitem__(self, FormClass.base_readonly_fields, name)
       IN outcome' = [NoOutcome EXCEPT !.op = "__getitem__", !.exc = r.exc,
                                       !.form = 1, !.name = name, !.bound = r.bound,
                                       !.type = r.type, !.value = r.value]
    /\ UNCHANGED <<classes, forms>>
    /\ UNCHANGED loaderVars

\* The views of ViewSpec and of the form specifications pass one of a few argument combinations.
ViewExcludeArgs == {Unset({}), Given({"b", "m"})}
ViewReadonlyFieldsArgs == {Unset(<<>>), Given(<<"m", "a">>)}

ViewNext ==
    \E request \in SeqToSet(Requests), cls \in DOMAIN classes,
       readonly_fields \in ViewReadonlyFieldsArgs,
       exclude \in ViewExcludeArgs, readonly_all \in BOOLEAN :
          Factory(MaxViews, request, cls, readonly_fields, exclude, "smart", readonly_all)

\* What a request can submit, and which names the view gives an initial value.
Submissions == [Names -> Values]
Initials == {{}, Names}

\* Cleaning the form of a request.
CleanNext ==
    \/ \E cls \in DOMAIN classes, data \in Submissions, initial \in Initials :
          NewForm(cls, data, initial)
    \/ \E field_name \in Names : SetReadonly(field_name)
    \/ FullClean

\* Rendering the form of a request: the template looks its fields up.
LookupNext ==
    \/ \E cls \in DOMAIN classes, data \in Submissions, initial \in Initials :
          NewForm(cls, data, initial)
    \/ \E field_name \in Names : SetReadonly(field_name)
    \/ \E name \in Names : GetItem(name)

FormNext ==
    \/ CleanNext
    \/ LookupNext

\* The classes the forms of CleanSpec and LookupSpec are made of: SmartForm, a declared form
\* class and, when a view has run, the class smartform_factory made of it.
GeneratedInit ==
    /\ \E body \in DeclaredBodies, meta \in DeclaredMetas, has_callback \in BOOLEAN :
          \E order \in Orders(SeqToSet(OptsReadonlyFields(meta.Meta))) :
             LET declared == SmartFormMetaclass__new__(
                                 <<SmartForm>>, 1,
                                 DeclaredAttrs(body, meta, has_callback), order).classes
             IN \/ classes = declared
                \/ \E readonly_fields \in ViewReadonlyFieldsArgs,
                      exclude \in ViewExcludeArgs, readonly_all \in BOOLEAN :
                      \E o \in FactoryOrders(declared, 2, readonly_fields, exclude,
                                             readonly_all) :
                         classes = smartform_factory(declared, "req1", 2, readonly_fields,
                                                     exclude, "smart", readonly_all, o).classes
    /\ forms = <<>>
    /\ outcome = NoOutcome

\* No form class beyond SmartForm, no form.
FormIdle ==
    /\ classes = <<SmartForm>>
    /\ forms = <<>>
    /\ outcome = NoOutcome

LoaderOnlyInit == LoaderInit /\ FormIdle
ClassInit == FormInit /\ LoaderIdle
FormOnlyInit == GeneratedInit /\ LoaderIdle
ViewOnlyInit == DeclaredInit({UploadBody}, {TRUE}) /\ LoaderIdle

\* The registry alone.
LoaderSpec == LoaderOnlyInit /\ [][LoaderNext]_vars

\* Class creation alone, with every combination of factory arguments.
ClassSpec == ClassInit /\ [][ClassNext]_vars

\* Several views generating classes of the same form classes.
ViewSpec == ViewOnlyInit /\ [][ViewNext]_vars

\* The forms made of declared and of generated classes: cleaned, looked up.
CleanSpec == FormOnlyInit /\ [][CleanNext]_vars
LookupSpec == FormOnlyInit /\ [][LookupNext]_vars

Init == LoaderInit /\ FormInit

Next ==
    \/ LoaderNext
    \/ ClassNext
    \/ ViewNext
    \/ FormNext

Spec == Init /\ [][Next]_vars

----------------------------------------------------------------------------
(* Claims about is_core/loading.py *)

\* How many app labels a core was registered under.
LabelsOf(c) == {l \in Labels : calls[l][c] > 0}

YieldMatches ==
    /\ yielded.done
    /\ SeqToSet(yielded.cores) \subseteq Cores
    /\ \A c \in Cores : Count(yielded.cores, c) = Cardinality(LabelsOf(c))

\* C1: iterating get_cores() yields exactly the cores that were registered:
\* a core appears once for every app label it was registered under, however
\* often register_core was called with that (app_label, core) pair, and a
\* core never registered does not appear.
C1_GetCoresYieldsRegistered == [][GetCores => YieldMatches']_vars

\* A core registered twice under one label and once under another, iterated.
C1_Witness ==
    /\ YieldMatches
    /\ \E c \in Cores : \E l1, l2 \in Labels :
          /\ l1 # l2
          /\ calls[l1][c] >= 2
          /\ calls[l2][c] >= 1
          /\ Count(yielded.cores, c) = 2

----------------------------------------------------------------------------
(* Claims about SmartFormMetaclass and smartform_factory *)

\* The classes SmartFormMetaclass made with an inner Meta.
WithMeta == {i \in DOMAIN classes : classes[i].hasMeta}

ExcludeOf(c) == IF c.Meta.exclude.some THEN c.Meta.exclude.v ELSE {}
ReadonlyFieldsOf(c) == SeqToSet(OptsReadonlyFields(c.Meta))
ReadonlyOf(c) == c.Meta.readonly.some /\ c.Meta.readonly.v

\* C3 as stated: no name listed in Meta.exclude is a key of base_fields or a
\* member of base_readonly_fields, whatever readonly_fields, readonly and
\* formreadonlyfield_callback are.
C3_ExcludedNeverPresent ==
    \A i \in WithMeta : \A n \in ExcludeOf(classes[i]) :
        /\ n \notin Keys(classes[i].base_fields)
        /\ n \notin SeqToSet(classes[i].base_readonly_fields)

\* C3 as amended: a name listed in Meta.exclude is a key of base_fields, or a
\* member of base_readonly_fields, exactly when it is also listed in
\* Meta.readonly_fields and the class's attributes hold a
\* formreadonlyfield_callback; it is then both, its field is the one the
\* callback returned for it, and it is listed once.
C3_ExcludedOnlyAsCallbackField ==
    \A i \in WithMeta : \A n \in ExcludeOf(classes[i]) :
        LET c == classes[i]
            regenerated == n \in ReadonlyFieldsOf(c) /\ c.has_callback
        IN /\ n \in Keys(c.base_fields) <=> regenerated
           /\ n \in SeqToSet(c.base_readonly_fields) <=> regenerated
           /\ regenerated =>
                 /\ Get(c.base_fields, n) = Call(c.callback, n)
                 /\ Count(c.base_readonly_fields, n) = 1

\* A generated class that dropped one excluded field of its base for good and
\* has another excluded name back as the callback's readonly field.
C3_Witness ==
    \E i \in WithMeta : \E n1, n2 \in ExcludeOf(classes[i]) :
        LET c == classes[i] IN
        /\ c.base > 1
        /\ n1 \in Keys(classes[c.base].base_fields)
        /\ n1 \notin Keys(c.base_fields)
        /\ n2 \in ReadonlyFieldsOf(c)
        /\ n2 \in Keys(c.base_fields)
        /\ n2 \in SeqToSet(c.base_readonly_fields)

\* C4: in a class made with an inner Meta, a field that is not excluded is in
\* base_readonly_fields if and only if its name is in Meta.readonly_fields,
\* Meta.readonly is true or the field's is_readonly is true; no field of the
\* base class that is not excluded is lost; every name in
\* base_readonly_fields is a key of base_fields and is listed once.
C4_ReadonlyFieldsExact ==
    \A i \in WithMeta :
        LET c == classes[i]
            brf == c.base_readonly_fields
        IN /\ \A k \in DOMAIN c.base_fields :
                 LET n == c.base_fields[k].name
                     field == c.base_fields[k].field
                 IN n \notin ExcludeOf(c) =>
                       (n \in SeqToSet(brf) <=>
                           \/ n \in ReadonlyFieldsOf(c)
                           \/ ReadonlyOf(c)
                           \/ field.is_readonly)
           /\ \A n \in Keys(classes[c.base].base_fields) \ ExcludeOf(c) :
                 /\ n \in Keys(c.base_fields)
                 /\ Get(c.base_fields, n) = Get(classes[c.base].base_fields, n)
           /\ \A n \in SeqToSet(brf) :
                 /\ n \in Keys(c.base_fields)
                 /\ Count(brf, n) = 1

\* A class whose readonly_fields lists a name twice, with one field readonly
\* by that list, one readonly only by its own is_readonly, and one editable.
C4_Witness ==
    \E i \in WithMeta :
        LET c == classes[i]
            brf == SeqToSet(c.base_readonly_fields)
        IN /\ ~ReadonlyOf(c)
           /\ \E n \in ReadonlyFieldsOf(c) :
                 /\ Count(OptsReadonlyFields(c.Meta), n) = 2
                 /\ n \in Keys(c.base_fields)
                 /\ n \in brf
           /\ \E n \in Keys(c.base_fields) \ ReadonlyFieldsOf(c) :
                 /\ Get(c.base_fields, n).is_readonly
                 /\ n \in brf
           /\ \E n \in Keys(c.base_fields) \ ExcludeOf(c) : n \notin brf

\* C6: a call of smartform_factory that returns adds one class, a subclass of
\* the form passed in that carries the request as _request; returning or
\* raising, it leaves every class that existed before the call as it was
\* (base_fields, base_readonly_fields, Meta and the rest), the form passed in
\* and the classes generated of it earlier included.
C6_FactoryLeavesClasses ==
    [][\A request \in SeqToSet(Requests), cls \in DOMAIN classes,
          readonly_fields \in ViewReadonlyFieldsArgs, exclude \in ViewExcludeArgs,
          readonly_all \in BOOLEAN :
            Factory(MaxViews, request, cls, readonly_fields, exclude, "smart", readonly_all)
            => /\ \A i \in DOMAIN classes : classes'[i] = classes[i]
               /\ outcome'.exc = "" =>
                     /\ Len(classes') = Len(classes) + 1
                     /\ outcome'.cls = Len(classes')
                     /\ classes'[Len(classes')].base = cls
                     /\ classes'[Len(classes')].request = Given(request)]_vars

\* Two classes generated of one form class for two requests, with different
\* fields and readonly fields, beside the form class they were generated of.
C6_Witness ==
    \E i, j \in DOMAIN classes :
        /\ i # j
        /\ classes[i].base = 2
        /\ classes[j].base = 2
        /\ classes[i].request.some /\ classes[j].request.some
        /\ classes[i].request # classes[j].request
        /\ classes[i].base_fields # classes[j].base_fields
        /\ classes[i].base_readonly_fields # classes[j].base_readonly_fields
        /\ classes[2].base_fields # classes[i].base_fields
        /\ classes[2].base_readonly_fields # <<>>
        /\ outcome.op = "smartform_factory"
        /\ outcome.cls = j

----------------------------------------------------------------------------
(* Claims about SmartFormMixin *)

ReadonlyNames == SeqToSet(FormClass.base_readonly_fields)

\* What full_clean leaves when the request had submitted data instead.
Resubmitted(data) ==
    full_clean([self EXCEPT !.data = data], FormClass.base_readonly_fields)

CleanedWithoutReadonly ==
    /\ HasForm
    /\ self.cleaned
    /\ \A n \in ReadonlyNames :
          /\ self.cleaned_data[n] = Absent
          /\ self.errors[n] = NoError
    /\ \A data \in [Names -> Values] :
          (\A n \in Names \ ReadonlyNames : data[n] = self.data[n])
          => LET other == Resubmitted(data)
             IN /\ other.cleaned_data = self.cleaned_data
                /\ other.errors = self.errors

\* C2: when _clean_fields has run, no name in base_readonly_fields is a key
\* of cleaned_data or of _errors, and a submission that differs from the one
\* cleaned only in the values of readonly fields gives the same cleaned_data
\* and the same _errors.
C2_ReadonlyNotCleaned == [][FullClean => CleanedWithoutReadonly']_vars

\* A cleaned form with a required readonly field that was sent a value its
\* validators reject, next to an editable field that was cleaned.
C2_Witness ==
    /\ HasForm
    /\ self.cleaned
    /\ CleanedWithoutReadonly
    /\ \E n \in ReadonlyNames \cap Keys(self.fields) :
          /\ Get(self.fields, n).required
          /\ self.data[n] = "bad"
    /\ \E n \in Keys(self.fields) \ ReadonlyNames :
          /\ self.data[n] = "ok"
          /\ self.cleaned_data[n] # Absent

RECURSIVE WithoutHyphens(_)
WithoutHyphens(s) ==
    IF s = <<>> THEN <<>>
    ELSE IF Head(s) = "-" THEN WithoutHyphens(Tail(s))
    ELSE <<Head(s)>> \o WithoutHyphens(Tail(s))

\* The widget class name in lower case, with hyphens put in and only there.
HyphenatedLowercase(t, class_name) ==
    /\ WithoutHyphens(t) = [i \in DOMAIN class_name |-> ToLower(class_name[i])]
    /\ Len(t) > Len(class_name)
    /\ \A i \in DOMAIN t : ~IsUpper(t[i])
    /\ t[1] # "-" /\ t[Len(t)] # "-"

Looked(name) ==
    /\ HasForm
    /\ outcome.op = "__getitem__"
    /\ outcome.name = name
    /\ IF name \notin Keys(self.fields)
       THEN outcome.exc = "KeyError"
       ELSE /\ outcome.exc = ""
            /\ outcome.bound \in {"ReadonlyBoundField", "SmartBoundField"}
            /\ outcome.bound = "ReadonlyBoundField" <=> name \in ReadonlyNames
            /\ outcome.bound = "ReadonlyBoundField" => outcome.type = READONLY
            /\ outcome.bound = "SmartBoundField" =>
                  HyphenatedLowercase(outcome.type, Get(self.fields, name).widget)

====
